---- MODULE Spec2Model ----
(***************************************************************************)
(* State-machine model of src/main.py: the capture / annotate / persist    *)
(* loop of the solar camera monitor, with its start-up capability check    *)
(* and capacity estimate.  main() is one sequential process; pc is its     *)
(* position, the remaining variables are its locals, the two directories   *)
(* it writes to, the wall clock, and counters of the effects it has had.   *)
(***************************************************************************)
EXTENDS Integers, Sequences, FiniteSets, TLC

\* ---------------------------------------------------------------- bounds
MaxIter == 2
MaxDelay == 1
TicksPerSec == 2

\* ------------------------------------------------------ program constants
TIMEOUT == 2

SAVE_DIR == <<"i", "m", "a", "g", "e", "s">>

\* ---------------------------------------------------------------- values
NoTime == [year |-> 0, month |-> 0, day |-> 0, hour |-> 0, minute |-> 0,
           second |-> 0, sub |-> 0]

NoImage == [id |-> 0, lines |-> <<>>]

NoStatus == [kind |-> "none", outputs |-> FALSE, snapshot |-> "absent",
             hasHeight |-> FALSE, height |-> 0, hasWidth |-> FALSE, width |-> 0]

\* Bodies the camera's /status endpoint can answer with.
StatusObject(o, s, hh, h, hw, w) ==
    [kind |-> "object", outputs |-> o, snapshot |-> s,
     hasHeight |-> hh, height |-> h, hasWidth |-> hw, width |-> w]

SnapshotDicts ==
    {StatusObject(TRUE, "dict", TRUE, h, TRUE, w) : h \in {0, 480}, w \in {0, 640}}
    \cup {StatusObject(TRUE, "dict", FALSE, 0, TRUE, w) : w \in {0, 640}}
    \cup {StatusObject(TRUE, "dict", TRUE, h, FALSE, 0) : h \in {0, 480}}
    \cup {StatusObject(TRUE, "dict", FALSE, 0, FALSE, 0)}

StatusBodies ==
    SnapshotDicts
    \cup {StatusObject(FALSE, "absent", FALSE, 0, FALSE, 0),
          StatusObject(TRUE, "absent", FALSE, 0, FALSE, 0),
          StatusObject(TRUE, "false", FALSE, 0, FALSE, 0),
          StatusObject(TRUE, "empty", FALSE, 0, FALSE, 0)}
    \cup {[NoStatus EXCEPT !.kind = "notjson"]}

\* Encoded sizes, in bytes, the sample frame can have.
SampleSizes == {3, 50000}

\* ------------------------------------------------------------ wall clock
Origin == [year |-> 2025, month |-> 12, day |-> 31, hour |-> 23, minute |-> 59,
           second |-> 58]

IsLeap(y) == (y % 4 = 0 /\ y % 100 # 0) \/ y % 400 = 0

DaysIn(y, m) ==
    IF m = 2 THEN (IF IsLeap(y) THEN 29 ELSE 28)
    ELSE IF m \in {4, 6, 9, 11} THEN 30 ELSE 31

RECURSIVE AddDays(_, _)
AddDays(date, n) ==
    IF n = 0 THEN date
    ELSE IF date[3] < DaysIn(date[1], date[2])
         THEN AddDays(<<date[1], date[2], date[3] + 1>>, n - 1)
    ELSE IF date[2] < 12 THEN AddDays(<<date[1], date[2] + 1, 1>>, n - 1)
    ELSE AddDays(<<date[1] + 1, 1, 1>>, n - 1)

\* datetime.datetime.now(): the host's naive local time at clock tick t.
datetime_now(t) ==
    LET total == Origin.hour * 3600 + Origin.minute * 60 + Origin.second
                 + t \div TicksPerSec
        date  == AddDays(<<Origin.year, Origin.month, Origin.day>>, total \div 86400)
        rem   == total % 86400
    IN [year |-> date[1], month |-> date[2], day |-> date[3],
        hour |-> rem \div 3600, minute |-> (rem % 3600) \div 60,
        second |-> rem % 60, sub |-> t % TicksPerSec]

\* --------------------------------------------------------------- strings
Digit(n) ==
    CASE n = 0 -> "0" [] n = 1 -> "1" [] n = 2 -> "2" [] n = 3 -> "3"
      [] n = 4 -> "4" [] n = 5 -> "5" [] n = 6 -> "6" [] n = 7 -> "7"
      [] n = 8 -> "8" [] n = 9 -> "9"

\* %m %d %H %M %S: two digits, zero padded.
Pad2(n) == <<Digit((n \div 10) % 10), Digit(n % 10)>>

\* %Y: four digits, zero padded.
Pad4(n) == <<Digit((n \div 1000) % 10), Digit((n \div 100) % 10)>> \o Pad2(n % 100)

\* The stamp with the day first: "%d%m%Y_%H%M%S".
strftime_file_dmy(now) ==
    Pad2(now.day) \o Pad2(now.month) \o Pad4(now.year) \o <<"_">>
    \o Pad2(now.hour) \o Pad2(now.minute) \o Pad2(now.second)

\* now.strftime("%Y%m%d_%H%M%S")
strftime_file(now) ==
    Pad4(now.year) \o Pad2(now.month) \o Pad2(now.day) \o <<"_">>
    \o Pad2(now.hour) \o Pad2(now.minute) \o Pad2(now.second)

\* f"{SAVE_DIR}/image_{timestamp}.jpg"
save_filename(now) ==
    SAVE_DIR \o <<"/", "i", "m", "a", "g", "e", "_">> \o strftime_file(now)
    \o <<".", "j", "p", "g">>

\* Concatenation of a tuple of one-character strings.
RECURSIVE Join(_)
Join(cs) == IF cs = <<>> THEN "" ELSE Head(cs) \o Join(Tail(cs))

RECURSIVE NatStr(_)
NatStr(n) == IF n < 10 THEN Digit(n) ELSE NatStr(n \div 10) \o Digit(n % 10)

RECURSIVE Pow10(_)
Pow10(k) == IF k = 0 THEN 1 ELSE 10 * Pow10(k - 1)

\* n as exactly k decimal digits.
RECURSIVE FracStr(_, _)
FracStr(n, k) == IF k = 0 THEN "" ELSE FracStr(n \div 10, k - 1) \o Digit(n % 10)

\* The abbreviation %Z prints for the host's zone.
LocalZone == "CET"

\* now.astimezone().strftime(TIME_FORMAT), TIME_FORMAT = "%Y-%m-%d %H:%M:%S %Z"
display_timestamp(now) ==
    Join(Pad4(now.year)) \o "-" \o Join(Pad2(now.month)) \o "-" \o Join(Pad2(now.day))
    \o " " \o Join(Pad2(now.hour)) \o ":" \o Join(Pad2(now.minute)) \o ":"
    \o Join(Pad2(now.second)) \o " " \o LocalZone

\* ------------------------------------------------------------- telemetry
\* A number of the payload: n / 10^s.
Num(n, s) == [n |-> n, s |-> s]

\* A field of "total": key says the name is there, has says which of v, u, d
\* the object under it holds.
Reading(key, has, v, u, d) == [key |-> key, has |-> has, v |-> v, u |-> u, d |-> d]

AbsentReading == Reading(FALSE, {}, Num(0, 0), "", 0)

EmptyReading == Reading(TRUE, {}, Num(0, 0), "", 0)

PowerReading == Reading(TRUE, {"v", "u", "d"}, Num(1234, 1), "W", 2)

YieldReading == Reading(TRUE, {"v", "u", "d"}, Num(1500, 0), "Wh", 0)

BareReading == Reading(TRUE, {"v"}, Num(1500, 0), "", 0)

TelemetryObject(t, p, y) == [kind |-> "object", hasTotal |-> t, Power |-> p, YieldDay |-> y]

NoTelemetry == [kind |-> "none", hasTotal |-> FALSE, Power |-> AbsentReading,
                YieldDay |-> AbsentReading]

TelemetryBodies ==
    {[NoTelemetry EXCEPT !.kind = "notjson"],
     TelemetryObject(FALSE, AbsentReading, AbsentReading),
     TelemetryObject(TRUE, PowerReading, YieldReading),
     TelemetryObject(TRUE, EmptyReading, BareReading)}

\* What the telemetry endpoint can answer: any body with 200, and with an
\* HTTP error either an error page or a JSON object without live data.
TelemetryResponses ==
    {[code |-> 200, body |-> b] : b \in TelemetryBodies}
    \cup {[code |-> 500, body |-> [NoTelemetry EXCEPT !.kind = "notjson"]],
          [code |-> 500, body |-> TelemetryObject(FALSE, AbsentReading, AbsentReading)]}

NoResponse == [code |-> 0, body |-> NoTelemetry]

\* f"{value:.{decimals}f}": value rounded to `decimals` places (half to even).
format_fixed(value, decimals) ==
    LET scaled ==
            IF decimals >= value.s THEN value.n * Pow10(decimals - value.s)
            ELSE LET div == Pow10(value.s - decimals)
                     q   == value.n \div div
                     r   == value.n % div
                 IN IF 2 * r > div \/ (2 * r = div /\ q % 2 = 1) THEN q + 1 ELSE q
        unit == Pow10(decimals)
    IN NatStr(scaled \div unit)
       \o (IF decimals = 0 THEN "" ELSE "." \o FracStr(scaled % unit, decimals))

\* The keys of v, u, d for which field.get(key, default) gives the default.
DefaultsUsed(field) ==
    IF ~field.key \/ field.has = {} THEN {} ELSE {"v", "u", "d"} \ field.has

\* The value always shown to two places.
format_opendtu_value_2dp(field) ==
    IF ~field.key \/ field.has = {} THEN "N/A"
    ELSE LET value == IF "v" \in field.has THEN field.v ELSE Num(0, 0)
             unit  == IF "u" \in field.has THEN field.u ELSE ""
         IN format_fixed(value, 2) \o " " \o unit

format_opendtu_value(field) ==
    IF ~field.key \/ field.has = {} THEN "N/A"
    ELSE LET value    == IF "v" \in field.has THEN field.v ELSE Num(0, 0)
             unit     == IF "u" \in field.has THEN field.u ELSE ""
             decimals == IF "d" \in field.has THEN field.d ELSE 0
         IN format_fixed(value, decimals) \o " " \o unit

\* opendtu_data.get("total", {}).get(name, {})
TotalField(body, name) ==
    IF ~body.hasTotal THEN AbsentReading
    ELSE IF name = "Power" THEN body.Power ELSE body.YieldDay

power_text(body) == "Power: " \o format_opendtu_value(TotalField(body, "Power"))

yield_day_text(body) == "Yield Today: " \o format_opendtu_value(TotalField(body, "YieldDay"))

\* ------------------------------------------------------------ capability
NotEnabled == "RuntimeError: Snapshot output is not enabled"

BadResolution == "RuntimeError: Invalid snapshot resolution"

\* The check with "and" for "or": only a frame of no size at all is refused.
ValidateErrorBothZero(st) ==
    IF ~st.outputs \/ st.snapshot # "dict" THEN NotEnabled
    ELSE LET height == IF st.hasHeight THEN st.height ELSE 0
             width  == IF st.hasWidth THEN st.width ELSE 0
         IN IF height = 0 /\ width = 0 THEN BadResolution ELSE "none"

\* main(), lines 122-133: the error the capability check raises, or "none".
ValidateError(st) ==
    IF ~st.outputs \/ st.snapshot # "dict" THEN NotEnabled
    ELSE LET height == IF st.hasHeight THEN st.height ELSE 0
             width  == IF st.hasWidth THEN st.width ELSE 0
         IN IF height = 0 \/ width = 0 THEN BadResolution ELSE "none"

\* -------------------------------------------------------------- estimate
\* The estimate for the five seconds the file's opening comment speaks of.
estimate_size_per_hour_5s(sz) == (sz * 3600) \div 5

estimate_size_per_hour(sz) == (sz * 3600) \div TIMEOUT

estimate_frames_per_hour == 3600 \div TIMEOUT

\* ------------------------------------------------------------ file system
OldFile == [kind |-> "old", image |-> NoImage]

\* The name a frame captured in the second after Origin is stored under.
OldName == save_filename(datetime_now(TicksPerSec))

\* The write that first moves a file already there aside, to name~.
PutKeepingBackup(dir, name, content) ==
    LET kept == IF name \in DOMAIN dir THEN {name \o <<"~">>} ELSE {}
    IN [n \in DOMAIN dir \cup {name} \cup kept |->
           IF n = name THEN content
           ELSE IF n \in kept THEN dir[name] ELSE dir[n]]

\* open(name, "w+b") and write: create or silently replace.
Put(dir, name, content) ==
    [n \in DOMAIN dir \cup {name} |-> IF n = name THEN content ELSE dir[n]]

\* ----------------------------------------------------------------- state
VARIABLES
    pc, phase, err, exit_status,        \* position in main(), uncaught exception
    clock,                              \* wall clock, in ticks since Origin
    status,                             \* main(): status
    request, response,                  \* get_image(): request in flight, response
    now, image,                         \* the frame in flight and its timestamp
    sample_bytes, size, size_per_hour, frames_per_hour,
    opendtu, timestamp, power_string, yield_day_string,
    test_jpg, images, images_before,    \* ./test.jpg, SAVE_DIR, SAVE_DIR at the fetch
    test_jpg_before,                    \* ./test.jpg as the process found it
    slept,                              \* argument of the last time.sleep
    nStatus, nSent, nRecv, nClock, nEstimate, nLoopFetch, nTelemetry,
    nAnnotated, nSaved, nSleep,         \* how often each effect has happened
    fn_a, fn_b, fn_names,               \* inputs and results of save_filename
    fmt_in, fmt_out, fmt_defaults       \* input and result of format_opendtu_value

ctl == <<pc, phase, err, exit_status>>
camv == <<request, response, now, image>>
estv == <<sample_bytes, size, size_per_hour, frames_per_hour>>
telv == <<opendtu, timestamp, power_string, yield_day_string>>
fsv == <<test_jpg, images, images_before, test_jpg_before>>
cntv == <<nStatus, nSent, nRecv, nClock, nEstimate, nLoopFetch, nTelemetry,
          nAnnotated, nSaved, nSleep>>
fnv == <<fn_a, fn_b, fn_names, fmt_in, fmt_out, fmt_defaults>>
vars == <<ctl, clock, status, camv, estv, telv, fsv, slept, cntv, fnv>>

\* Nothing has run yet: every local is unset and every counter is zero.
Fresh ==
    /\ phase = "Validating" /\ err = "none" /\ exit_status = 0
    /\ clock = 0
    /\ status = NoStatus
    /\ request = "none" /\ response = "none" /\ now = NoTime /\ image = NoImage
    /\ sample_bytes = 0 /\ size = 0 /\ size_per_hour = 0 /\ frames_per_hour = 0
    /\ opendtu = NoResponse /\ timestamp = "" /\ power_string = ""
    /\ yield_day_string = ""
    /\ slept = 0
    /\ nStatus = 0 /\ nSent = 0 /\ nRecv = 0 /\ nClock = 0 /\ nEstimate = 0
    /\ nLoopFetch = 0 /\ nTelemetry = 0 /\ nAnnotated = 0 /\ nSaved = 0 /\ nSleep = 0

\* The process starts in a working directory that may hold a test.jpg of the
\* user's and with a SAVE_DIR that may hold a frame of an earlier run.
InitMain ==
    /\ Fresh
    /\ pc = "get_status"
    /\ test_jpg \in {"absent", "user"}
    /\ images \in {<<>>, Put(<<>>, OldName, OldFile)}
    /\ images_before = images
    /\ test_jpg_before = test_jpg

\* format_opendtu_value has not been applied to anything.
NoFormat == fmt_in = AbsentReading /\ fmt_out = "" /\ fmt_defaults = {}

Init ==
    /\ InitMain
    /\ fn_a = NoTime /\ fn_b = NoTime /\ fn_names = <<>>
    /\ NoFormat

\* ------------------------------------------------------------ control flow
Goto(p) == pc' = p /\ err' = err /\ exit_status' = exit_status

\* The exception caught and the failed step run again.
RaiseAndRetry(e) == pc' = pc /\ err' = e /\ exit_status' = exit_status

\* No try/except anywhere: an exception leaves main() and ends the process.
Raise(e) == pc' = "crashed" /\ err' = e /\ exit_status' = 1

\* The capability errors printed as warnings, and on into the estimator.
WarnInvalid(e) == pc' = "img_send" /\ err' = e /\ exit_status' = exit_status

\* main(), lines 125 and 133: raise RuntimeError(...).
OnInvalid(e) == Raise(e)

\* The timestamp taken before the response is awaited.
AfterSendClockFirst == "img_clock"

\* get_image(): requests.get blocks until the response is in.
AfterSend == "img_recv"

\* The sample annotated like a real capture.
AfterGetImageAnnotating(ph) == "embed_fetch"

\* get_image() returns to estimate_size_per_hour (107) or to the loop (143).
AfterGetImage(ph) == IF ph = "Estimating" THEN "est_save" ELSE "embed_fetch"

\* Returning the frame before the yield line is drawn.
AfterDrawTwoLines(k) == IF k = 2 THEN "save" ELSE "draw"

\* embed_text(): after draw.text number k, the next one; after the third, save.
AfterDraw(k) == IF k = 3 THEN "save" ELSE "draw"

\* One capture and out: no while True.
AfterSaveExit == "done"

\* The loop without its sleep.
AfterSaveNoSleep == "img_send"

\* main(): save_image is followed by time.sleep.
AfterSave == "sleep"

\* The loop around all of main().
AfterSleepRestart == "get_status"

\* main(): while True leads back to get_image.
AfterSleep == "img_send"

\* The sample left behind.
KeepFile(f) == f

\* os.remove(path): what is left of the file.
RemoveFile(f) == "absent"

\* -------------------------------------------------------------- Validating
\* get_camera_status(): one GET of /status, then response.json().
GetCameraStatus(answered, body, d) ==
    /\ pc = "get_status"
    /\ nStatus' = nStatus + 1
    /\ clock' = clock + d
    /\ IF ~answered THEN Raise("ConnectionError") /\ status' = status
       ELSE IF body.kind = "notjson" THEN Raise("JSONDecodeError") /\ status' = status
       ELSE Goto("validate") /\ status' = body
    /\ UNCHANGED <<phase, camv, estv, telv, fsv, slept, nSent, nRecv, nClock, nEstimate,
                   nLoopFetch, nTelemetry, nAnnotated, nSaved, nSleep, fnv>>

\* main(), lines 122-137: the capability gate, then into the estimator.
Validate ==
    /\ pc = "validate"
    /\ IF ValidateError(status) # "none"
       THEN OnInvalid(ValidateError(status)) /\ UNCHANGED <<phase, nEstimate>>
       ELSE Goto("img_send") /\ phase' = "Estimating" /\ nEstimate' = nEstimate + 1
    /\ UNCHANGED <<clock, status, camv, estv, telv, fsv, slept, nStatus, nSent, nRecv,
                   nClock, nLoopFetch, nTelemetry, nAnnotated, nSaved, nSleep, fnv>>

\* --------------------------------------------------------------- get_image
\* requests.get(CAMERA_SNAPSHOT_URL): the request leaves.
SendSnapshot ==
    /\ pc = "img_send"
    /\ phase = "Running" => nLoopFetch < MaxIter
    /\ request' = "snapshot"
    /\ nSent' = nSent + 1
    /\ nLoopFetch' = IF phase = "Running" THEN nLoopFetch + 1 ELSE nLoopFetch
    /\ images_before' = images
    /\ Goto(AfterSend)
    /\ UNCHANGED <<phase, clock, status, response, now, image, estv, telv, test_jpg,
                   images, test_jpg_before, slept, nStatus, nRecv, nClock, nEstimate, nTelemetry,
                   nAnnotated, nSaved, nSleep, fnv>>

\* requests.get returns: the response is in, or the connection failed.
RecvSnapshot(answered, body, d) ==
    /\ pc = "img_recv"
    /\ request' = "none"
    /\ clock' = clock + d
    /\ IF ~answered THEN Raise("ConnectionError") /\ UNCHANGED <<response, nRecv>>
       ELSE Goto("img_clock") /\ response' = body /\ nRecv' = nRecv + 1
    /\ UNCHANGED <<phase, status, now, image, estv, telv, fsv, slept, nStatus, nSent,
                   nClock, nEstimate, nLoopFetch, nTelemetry, nAnnotated, nSaved,
                   nSleep, fnv>>

\* now = datetime.datetime.now()
ReadClock ==
    /\ pc = "img_clock"
    /\ now' = datetime_now(clock)
    /\ nClock' = nClock + 1
    /\ Goto("img_decode")
    /\ UNCHANGED <<phase, clock, status, request, response, image, estv, telv, fsv,
                   slept, nStatus, nSent, nRecv, nEstimate, nLoopFetch, nTelemetry,
                   nAnnotated, nSaved, nSleep, fnv>>

\* Image.open(BytesIO(response.content))
DecodeImage ==
    /\ pc = "img_decode"
    /\ IF response # "image" THEN Raise("UnidentifiedImageError") /\ image' = image
       ELSE Goto(AfterGetImage(phase)) /\ image' = [id |-> nRecv, lines |-> <<>>]
    /\ UNCHANGED <<phase, clock, status, request, response, now, estv, telv, fsv,
                   slept, cntv, fnv>>

\* --------------------------------------------------------------- Estimating
\* image.save(path) failing: a refused open leaves the file as it was; a write
\* that fails midway leaves a file that was there torn and removes one it created.
FailedSave(before, outcome, torn) ==
    IF outcome = "torn" /\ before # "absent" THEN torn ELSE before

\* image.save("test.jpg"); bytes is the encoded size the file then has.
EstimatorSave(outcome, bytes) ==
    /\ pc = "est_save"
    /\ IF outcome = "ok"
       THEN Goto("est_size") /\ test_jpg' = "sample" /\ sample_bytes' = bytes
       ELSE /\ Raise("OSError")
            /\ test_jpg' = FailedSave(test_jpg, outcome, "torn")
            /\ sample_bytes' = sample_bytes
    /\ UNCHANGED <<phase, clock, status, camv, size, size_per_hour, frames_per_hour,
                   telv, images, images_before, test_jpg_before, slept, cntv, fnv>>

\* size = os.path.getsize("test.jpg")
EstimatorSize ==
    /\ pc = "est_size"
    /\ size' = sample_bytes
    /\ Goto("est_remove")
    /\ UNCHANGED <<phase, clock, status, camv, sample_bytes, size_per_hour,
                   frames_per_hour, telv, fsv, slept, cntv, fnv>>

\* os.remove("test.jpg"); return size * 3600 / TIMEOUT
EstimatorRemove(ok) ==
    /\ pc = "est_remove"
    /\ IF ok
       THEN /\ Goto("est_report")
            /\ test_jpg' = RemoveFile(test_jpg)
            /\ size_per_hour' = estimate_size_per_hour(size)
       ELSE Raise("OSError") /\ UNCHANGED <<test_jpg, size_per_hour>>
    /\ UNCHANGED <<phase, clock, status, camv, sample_bytes, size, frames_per_hour,
                   telv, images, images_before, test_jpg_before, slept, cntv, fnv>>

\* main(), lines 138-142: frames per hour, the report line, into the loop.
EstimatorReport ==
    /\ pc = "est_report"
    /\ frames_per_hour' = estimate_frames_per_hour
    /\ phase' = "Running"
    /\ Goto("img_send")
    /\ UNCHANGED <<clock, status, camv, sample_bytes, size, size_per_hour, telv, fsv,
                   slept, cntv, fnv>>

\* ------------------------------------------------------------------ Running
\* embed_text(), lines 77-88: the display timestamp, one GET of the telemetry
\* status, response.json(), and the two overlay strings.
EmbedFetch(answered, resp, d) ==
    /\ pc = "embed_fetch"
    /\ timestamp' = display_timestamp(now)
    /\ nTelemetry' = nTelemetry + 1
    /\ clock' = clock + d
    /\ IF ~answered
       THEN Raise("ConnectionError") /\ UNCHANGED <<opendtu, power_string, yield_day_string>>
       ELSE /\ opendtu' = resp
            /\ IF resp.body.kind = "notjson"
               THEN Raise("JSONDecodeError") /\ UNCHANGED <<power_string, yield_day_string>>
               ELSE /\ Goto("draw")
                    /\ power_string' = power_text(resp.body)
                    /\ yield_day_string' = yield_day_text(resp.body)
    /\ UNCHANGED <<phase, status, camv, estv, fsv, slept, nStatus, nSent, nRecv, nClock,
                   nEstimate, nLoopFetch, nAnnotated, nSaved, nSleep, fnv>>

\* The telemetry lines kept from a frame already saved, when there is one.
OverlayLineCached(k) ==
    LET saved == {n \in DOMAIN images : images[n].kind = "frame"}
        first == images[CHOOSE n \in saved : TRUE].image.lines
    IN CASE k = 1 -> [y |-> 10, text |-> timestamp]
         [] k = 2 -> [y |-> 40, text |-> IF saved = {} THEN power_string ELSE first[2].text]
         [] k = 3 -> [y |-> 70, text |-> IF saved = {} THEN yield_day_string
                                         ELSE first[3].text]

\* The text the next draw.text call of embed_text puts on the frame, and its row.
OverlayLine(k) ==
    CASE k = 1 -> [y |-> 10, text |-> timestamp]
      [] k = 2 -> [y |-> 40, text |-> power_string]
      [] k = 3 -> [y |-> 70, text |-> yield_day_string]

\* embed_text(), lines 90-96: one draw.text per step; after the third, return.
Draw ==
    /\ pc = "draw"
    /\ image' = [image EXCEPT !.lines = Append(@, OverlayLine(Len(@) + 1))]
    /\ Goto(AfterDraw(Len(image.lines) + 1))
    /\ nAnnotated' = IF AfterDraw(Len(image.lines) + 1) = "draw"
                     THEN nAnnotated ELSE nAnnotated + 1
    /\ UNCHANGED <<phase, clock, status, request, response, now, estv, telv, fsv,
                   slept, nStatus, nSent, nRecv, nClock, nEstimate, nLoopFetch,
                   nTelemetry, nSaved, nSleep, fnv>>

\* The file named for the moment of the save.
SaveTimeFresh == datetime_now(clock)

\* main(), line 145: save_image gets the now that get_image returned.
SaveTime == now

\* save_image(image, now)
SaveImage(outcome) ==
    LET filename == save_filename(SaveTime)
        before   == IF filename \in DOMAIN images THEN "there" ELSE "absent"
    IN /\ pc = "save"
       /\ IF outcome = "ok"
          THEN /\ Goto(AfterSave)
               /\ images' = Put(images, filename, [kind |-> "frame", image |-> image])
               /\ nSaved' = nSaved + 1
          ELSE /\ Raise("OSError")
               /\ images' = IF FailedSave(before, outcome, "torn") = "torn"
                            THEN Put(images, filename, [kind |-> "torn", image |-> image])
                            ELSE images
               /\ nSaved' = nSaved
       /\ UNCHANGED <<phase, clock, status, camv, estv, telv, test_jpg, images_before,
                      test_jpg_before, slept, nStatus, nSent, nRecv, nClock, nEstimate, nLoopFetch,
                      nTelemetry, nAnnotated, nSleep, fnv>>

\* The argument of time.sleep taken for milliseconds.
sleep_ticks_ms(seconds) == (seconds * TicksPerSec) \div 1000

\* time.sleep(seconds) suspends for at least that long.
sleep_ticks(seconds) == seconds * TicksPerSec

\* time.sleep(TIMEOUT), then the next turn of while True.
Sleep(over) ==
    /\ pc = "sleep"
    /\ slept' = TIMEOUT
    /\ clock' = clock + sleep_ticks(TIMEOUT) + over
    /\ nSleep' = nSleep + 1
    /\ Goto(AfterSleep)
    /\ UNCHANGED <<phase, status, camv, estv, telv, fsv, nStatus, nSent, nRecv, nClock,
                   nEstimate, nLoopFetch, nTelemetry, nAnnotated, nSaved, fnv>>

\* ------------------------------------------------------------ specification
Delays == 0 .. MaxDelay

SaveOutcomes == {"ok", "refused", "torn"}

Next ==
    \/ \E a \in BOOLEAN, b \in StatusBodies, d \in Delays : GetCameraStatus(a, b, d)
    \/ Validate
    \/ SendSnapshot
    \/ \E a \in BOOLEAN, b \in {"image", "garbage"}, d \in Delays : RecvSnapshot(a, b, d)
    \/ ReadClock
    \/ DecodeImage
    \/ \E o \in SaveOutcomes, b \in SampleSizes : EstimatorSave(o, b)
    \/ EstimatorSize
    \/ \E ok \in BOOLEAN : EstimatorRemove(ok)
    \/ EstimatorReport
    \/ \E a \in BOOLEAN, r \in TelemetryResponses, d \in Delays : EmbedFetch(a, r, d)
    \/ Draw
    \/ \E o \in SaveOutcomes : SaveImage(o)
    \/ \E over \in Delays : Sleep(over)

Spec == Init /\ [][Next]_vars

\* ------------------------------------------- save_image's file names alone
\* Capture timestamps around the places where a field gains a digit.
Stamps ==
    [year : {2025, 2026}, month : {9, 10}, day : {9, 10}, hour : {9, 10},
     minute : {9, 10}, second : {9, 10}, sub : 0 .. (TicksPerSec - 1)]

InitFilename ==
    /\ Fresh
    /\ pc = "filename"
    /\ test_jpg = "absent" /\ images = <<>> /\ images_before = <<>>
    /\ test_jpg_before = "absent"
    /\ fn_a \in Stamps /\ fn_b \in Stamps /\ fn_names = <<>>
    /\ NoFormat

\* save_image(), lines 100-101, for each of the two timestamps.
DeriveFilenames ==
    /\ pc = "filename"
    /\ fn_names = <<>>
    /\ fn_names' = <<save_filename(fn_a), save_filename(fn_b)>>
    /\ UNCHANGED <<ctl, clock, status, camv, estv, telv, fsv, slept, cntv, fn_a, fn_b,
                   fmt_in, fmt_out, fmt_defaults>>

NextFilename == DeriveFilenames

SpecFilename == InitFilename /\ [][NextFilename]_vars

\* ------------------------------------------------- save_image run twice
\* An annotated frame taken at t, as embed_text returns it.
AnnotatedFrame(t, power) ==
    [id |-> 2,
     lines |-> <<[y |-> 10, text |-> display_timestamp(t)],
                 [y |-> 40, text |-> power],
                 [y |-> 70, text |-> "Yield Today: N/A"]>>]

\* The process is about to call save_image(image, now); SAVE_DIR is empty or
\* holds an older file, under the name about to be written or under another.
InitResave ==
    /\ pc = "save" /\ phase = "Running" /\ err = "none" /\ exit_status = 0
    /\ clock = 0 /\ status = NoStatus
    /\ request = "none" /\ response = "image"
    /\ now \in Stamps
    /\ image \in {AnnotatedFrame(now, p) : p \in {"Power: N/A", "Power: 123.40 W"}}
    /\ sample_bytes = 0 /\ size = 0 /\ size_per_hour = 0 /\ frames_per_hour = 0
    /\ opendtu = NoResponse /\ timestamp = "" /\ power_string = ""
    /\ yield_day_string = ""
    /\ test_jpg = "absent" /\ test_jpg_before = "absent"
    /\ images \in {<<>>, Put(<<>>, OldName, OldFile), Put(<<>>, save_filename(now), OldFile)}
    /\ images_before = images
    /\ slept = 0
    /\ nStatus = 0 /\ nSent = 0 /\ nRecv = 0 /\ nClock = 0 /\ nEstimate = 0
    /\ nLoopFetch = 0 /\ nTelemetry = 0 /\ nAnnotated = 0 /\ nSaved = 0 /\ nSleep = 0
    /\ fn_a = NoTime /\ fn_b = NoTime /\ fn_names = <<>>
    /\ NoFormat

\* save_image is called once more with the same image and now.
SaveAgain ==
    /\ pc = AfterSave
    /\ nSaved = 1
    /\ images_before' = images
    /\ Goto("save")
    /\ UNCHANGED <<phase, clock, status, camv, estv, telv, test_jpg, images,
                   test_jpg_before, slept, cntv, fnv>>

NextResave ==
    \/ \E o \in SaveOutcomes : SaveImage(o)
    \/ SaveAgain

SpecResave == InitResave /\ [][NextResave]_vars

\* ------------------------------------------------ format_opendtu_value alone
Payloads == {Num(1234, 1), Num(1500, 0), Num(5, 1), Num(125, 2)}

Units == {"W", "Wh"}

Precisions == {0, 1, 2, 3}

\* The objects a field of "total" can be: absent, or with any of v, u, d.
Readings ==
    {AbsentReading}
    \cup {Reading(TRUE, has, IF "v" \in has THEN v ELSE Num(0, 0),
                  IF "u" \in has THEN u ELSE "", IF "d" \in has THEN d ELSE 0) :
              has \in SUBSET {"v", "u", "d"}, v \in Payloads, u \in Units, d \in Precisions}

InitFormat ==
    /\ Fresh
    /\ pc = "format"
    /\ test_jpg = "absent" /\ images = <<>> /\ images_before = <<>>
    /\ test_jpg_before = "absent"
    /\ fn_a = NoTime /\ fn_b = NoTime /\ fn_names = <<>>
    /\ fmt_in \in Readings /\ fmt_out = "" /\ fmt_defaults = {}

\* format_opendtu_value(field)
FormatReading ==
    /\ pc = "format"
    /\ fmt_out = ""
    /\ fmt_out' = format_opendtu_value(fmt_in)
    /\ fmt_defaults' = DefaultsUsed(fmt_in)
    /\ UNCHANGED <<ctl, clock, status, camv, estv, telv, fsv, slept, cntv, fn_a, fn_b,
                   fn_names, fmt_in>>

NextFormat == FormatReading

SpecFormat == InitFormat /\ [][NextFormat]_vars

\* ------------------------------------------- the run in which nothing fails
\* The camera reports a usable snapshot output.
GoodStatusBodies == {b \in StatusBodies : b.kind = "object" /\ ValidateError(b) = "none"}

\* The telemetry endpoint answers 200 with a JSON object, with or without
\* live data.
GoodTelemetry ==
    {r \in TelemetryResponses :
        /\ r.code = 200
        /\ r.body \in {TelemetryObject(TRUE, PowerReading, YieldReading),
                       TelemetryObject(FALSE, AbsentReading, AbsentReading)}}

NextLive ==
    \/ \E b \in GoodStatusBodies, d \in Delays : GetCameraStatus(TRUE, b, d)
    \/ Validate
    \/ SendSnapshot
    \/ \E d \in Delays : RecvSnapshot(TRUE, "image", d)
    \/ ReadClock
    \/ DecodeImage
    \/ EstimatorSave("ok", 50000)
    \/ EstimatorSize
    \/ EstimatorRemove(TRUE)
    \/ EstimatorReport
    \/ \E r \in GoodTelemetry, d \in Delays : EmbedFetch(TRUE, r, d)
    \/ Draw
    \/ SaveImage("ok")
    \/ \E over \in Delays : Sleep(over)

\* main() is the only thread: while a step is possible, it is taken.
SpecLive == Init /\ [][NextLive]_vars /\ WF_vars(NextLive)

\* ------------------------------------------------------------------ claims
Rank(ph) == CASE ph = "Validating" -> 1 [] ph = "Estimating" -> 2 [] ph = "Running" -> 3

\* The files of SAVE_DIR this run's loop has written (whole or torn).
Written == {n \in DOMAIN images : images[n].kind # "old"}

\* C1: whenever the telemetry endpoint answers the annotation's request with an
\* HTTP error response, annotation fails: the process is terminated and SAVE_DIR
\* is as it was when the iteration fetched its frame.
C1_HttpErrorAborts ==
    (phase = "Running" /\ opendtu.code >= 400)
        => (pc = "crashed" /\ images = images_before)

\* C2: once the capability check has run on a response, it passed if the
\* snapshot output is enabled with height > 0 and width > 0, and it failed with
\* one of the two capability errors if the output is disabled or absent, or a
\* dimension is 0 or absent.
C2_Validating ==
    (status.kind = "object" /\ pc # "validate") =>
        LET enabled == status.outputs /\ status.snapshot = "dict"
            hPos    == status.hasHeight /\ status.height > 0
            wPos    == status.hasWidth /\ status.width > 0
            hZero   == ~status.hasHeight \/ status.height = 0
            wZero   == ~status.hasWidth \/ status.width = 0
        IN /\ (enabled /\ hPos /\ wPos)
                => (phase # "Validating" /\ err \notin {NotEnabled, BadResolution})
           /\ (~enabled \/ hZero \/ wZero)
                => (phase = "Validating" /\ pc = "crashed" /\ exit_status # 0
                    /\ err \in {NotEnabled, BadResolution})

C2_Witness ==
    /\ pc = "crashed" /\ err = BadResolution
    /\ status.hasHeight /\ status.height > 0 /\ status.hasWidth /\ status.width = 0

\* C3: a step that raises puts the process in the terminated state with a
\* non-zero status, and from then on no request is sent, no file is written,
\* no sleep is taken and nothing else changes: no step is run again.
C3_NoRetry ==
    [][/\ (err' # "none") => (pc' = "crashed" /\ exit_status' # 0)
       /\ (err # "none") => (/\ UNCHANGED <<cntv, fsv, clock, slept, request>>
                             /\ UNCHANGED <<ctl, status, camv, estv, telv>>)]_vars

C3_Witness == pc = "crashed" /\ err = "OSError" /\ nSaved = 1 /\ nSleep = 1

\* C4: every file the loop has written holds a frame with the three overlay
\* lines, timestamp, power and yield, at rows 10, 40 and 70; save is reached
\* only with this iteration's telemetry fetched and the three lines drawn.
C4_NoPartialFrame ==
    /\ \A n \in Written :
          /\ Len(images[n].image.lines) = 3
          /\ images[n].image.lines[1].y = 10
          /\ images[n].image.lines[2].y = 40
          /\ images[n].image.lines[3].y = 70
    /\ pc = "save" => (Len(image.lines) = 3 /\ nTelemetry = nLoopFetch)
    /\ nSaved <= nAnnotated /\ nAnnotated <= nTelemetry

C4_Witness ==
    /\ pc = "crashed" /\ err = "JSONDecodeError" /\ nTelemetry = 2
    /\ \E n \in Written : images[n].kind = "frame"

\* C5: the phases are entered in the order Validating, Estimating, Running,
\* each at most once; the capability is fetched once, before the estimator's
\* sample; the estimator runs once, before the first fetch of the loop; and
\* while Running the capability is neither fetched nor changed.
C5_PhaseOrder ==
    /\ [](/\ nStatus <= 1 /\ nEstimate <= 1
          /\ nSent > 0 => (nStatus = 1 /\ nEstimate = 1 /\ phase # "Validating")
          /\ nLoopFetch > 0 => (phase = "Running" /\ nSent = nLoopFetch + 1)
          /\ nSent <= nLoopFetch + 1)
    /\ [][/\ phase' # phase => Rank(phase') = Rank(phase) + 1
          /\ phase = "Running" => (nStatus' = nStatus /\ status' = status
                                   /\ nEstimate' = nEstimate)]_vars

C5_Witness == phase = "Running" /\ nLoopFetch = 2 /\ nSleep = 1 /\ nStatus = 1

\* C6: in the loop a frame is fetched, then annotated, then saved, then one
\* sleep of TIMEOUT seconds is taken, and only then is the next frame fetched.
C6_LoopOrder ==
    /\ nSleep <= nSaved /\ nSaved <= nAnnotated /\ nAnnotated <= nLoopFetch
    /\ nLoopFetch <= nSleep + 1
    /\ nSleep > 0 => slept = 2
    /\ (pc = "img_send" /\ phase = "Running") => nSleep = nLoopFetch
    /\ pc = "sleep" => nSaved = nLoopFetch
    /\ pc = "save" => nAnnotated = nLoopFetch

C6_Witness == pc = "img_recv" /\ nLoopFetch = 2 /\ nSleep = 1 /\ nSaved = 1

\* C7: with the estimate made from a sample of S bytes, bytes per hour times
\* the interval is S * 3600 and frames per hour times the interval is 3600,
\* exactly; S = 50000 gives 90,000,000 and 1800; and the loop sleeps for that
\* same interval.
C7_Estimate ==
    (pc = "est_report" \/ phase = "Running") =>
        /\ size_per_hour * 2 = size * 3600
        /\ size = 50000 => size_per_hour = 90000000
        /\ phase = "Running" => (frames_per_hour * 2 = 3600 /\ frames_per_hour = 1800)
        /\ nSleep > 0 => slept = 2

C7_Witness == phase = "Running" /\ size = 50000 /\ nSleep = 1

\* C8: when Estimating has completed, exactly one frame has been captured for
\* it, test.jpg does not exist and SAVE_DIR is as it was before the sample was
\* fetched; no file of SAVE_DIR ever holds the sample frame.
C8_SampleDiscarded ==
    /\ phase = "Running" => (test_jpg = "absent" /\ nSent = nLoopFetch + 1)
    /\ (phase = "Running" /\ nLoopFetch = 0) => images = images_before
    /\ \A n \in Written : images[n].image.id > 1

C8_Witness == phase = "Running" /\ nLoopFetch = 0 /\ pc = "img_send" /\ size = 3

\* C9: during Validating and Estimating no telemetry request is made and
\* nothing is drawn; the first telemetry request comes after the first
\* snapshot fetch of the loop.
C9_EstimatorCameraOnly ==
    /\ phase # "Running" => (nTelemetry = 0 /\ nAnnotated = 0 /\ image.lines = <<>>)
    /\ nTelemetry > 0 => (nLoopFetch >= 1 /\ nRecv >= 2 /\ nTelemetry <= nLoopFetch)

C9_Witness == phase = "Running" /\ nTelemetry = 1 /\ pc = "draw"

\* The code point of a character of a file name.
CharCode(c) ==
    CASE c = "0" -> 48 [] c = "1" -> 49 [] c = "2" -> 50 [] c = "3" -> 51
      [] c = "4" -> 52 [] c = "5" -> 53 [] c = "6" -> 54 [] c = "7" -> 55
      [] c = "8" -> 56 [] c = "9" -> 57 [] c = "." -> 46 [] c = "/" -> 47
      [] c = "_" -> 95 [] c = "a" -> 97 [] c = "e" -> 101 [] c = "g" -> 103
      [] c = "i" -> 105 [] c = "j" -> 106 [] c = "m" -> 109 [] c = "p" -> 112
      [] c = "s" -> 115

\* s sorts before t as strings are compared: by the first differing character.
RECURSIVE LexLess(_, _)
LexLess(s, t) ==
    IF t = <<>> THEN FALSE
    ELSE IF s = <<>> THEN TRUE
    ELSE IF Head(s) # Head(t) THEN CharCode(Head(s)) < CharCode(Head(t))
    ELSE LexLess(Tail(s), Tail(t))

RECURSIVE DaysBeforeMonth(_, _)
DaysBeforeMonth(y, m) == IF m = 1 THEN 0 ELSE DaysBeforeMonth(y, m - 1) + DaysIn(y, m - 1)

\* The days from 0001-01-01 to the date.
DayNumber(y, m, d) ==
    365 * (y - 1) + (y - 1) \div 4 - (y - 1) \div 100 + (y - 1) \div 400
    + DaysBeforeMonth(y, m) + d - 1

\* A timestamp as a count of clock ticks since 2020-01-01 00:00:00.
Instant(t) ==
    ((((DayNumber(t.year, t.month, t.day) - DayNumber(2020, 1, 1)) * 24 + t.hour) * 60
      + t.minute) * 60 + t.second) * TicksPerSec + t.sub

\* C10: two capture timestamps in the same second get the same file name; two
\* that are a second or more apart get different names, and the names sort as
\* the timestamps do.
C10_FilenameOrder ==
    fn_names # <<>> =>
        /\ Instant(fn_a) \div TicksPerSec = Instant(fn_b) \div TicksPerSec
              => fn_names[1] = fn_names[2]
        /\ Instant(fn_b) - Instant(fn_a) >= TicksPerSec
              => (fn_names[1] # fn_names[2] /\ LexLess(fn_names[1], fn_names[2])
                  /\ ~LexLess(fn_names[2], fn_names[1]))

C10_Witness ==
    /\ fn_names # <<>> /\ LexLess(fn_names[1], fn_names[2])
    /\ fn_a.year < fn_b.year /\ fn_a.day > fn_b.day /\ fn_a.second > fn_b.second

\* The files of SAVE_DIR that hold a whole frame of this run.
Frames == {n \in DOMAIN images : images[n].kind = "frame"}

\* C11: the clock of the model never goes back and the loop sleeps TIMEOUT >= 1
\* seconds, and then the names the loop writes increase strictly in the order
\* of capture: there are as many frame files as completed saves, so no save
\* replaced the file of an earlier iteration.
C11_NamesIncrease ==
    /\ Cardinality(Frames) = nSaved
    /\ \A a \in Frames, b \in Frames :
          images[a].image.id < images[b].image.id
              => LexLess(a, b)

C11_Witness ==
    /\ nSaved = 2 /\ pc = "sleep"
    /\ \E a \in Frames, b \in Frames : images[a].image.id < images[b].image.id

\* C15: in every snapshot fetch the request is sent, then the response is
\* received, then the clock is read: no clock is read while a request is in
\* flight, and each read follows the receipt of that fetch's response.
C15_StampAfterResponse ==
    /\ nClock <= nRecv /\ nRecv <= nSent /\ nSent <= nClock + 1
    /\ request = "snapshot" => (nSent = nRecv + 1 /\ nClock = nRecv)
    /\ pc = "img_decode" => (nClock = nSent /\ nRecv = nSent /\ now = datetime_now(clock))

C15_Witness == pc = "img_decode" /\ nClock = 2 /\ clock > 0 /\ phase = "Running"

\* C16: each iteration of the loop makes one telemetry request, after its
\* snapshot fetch and before its save, and the power and yield lines of the
\* frame it saves are those of the response to that request.
C16_FreshTelemetry ==
    /\ nTelemetry <= nLoopFetch /\ nLoopFetch <= nTelemetry + 1
    /\ nTelemetry > 0 => nRecv >= nTelemetry + 1
    /\ nSaved <= nTelemetry
    /\ pc \in {"draw", "save", "sleep"} =>
          /\ nTelemetry = nLoopFetch
          /\ power_string
                = "Power: " \o format_opendtu_value(TotalField(opendtu.body, "Power"))
          /\ yield_day_string
                = "Yield Today: "
                  \o format_opendtu_value(TotalField(opendtu.body, "YieldDay"))
    /\ pc = "sleep" =>
          \E n \in Frames :
              /\ images[n].image.id = nRecv
              /\ images[n].image.lines[2].text
                    = "Power: " \o format_opendtu_value(TotalField(opendtu.body, "Power"))
              /\ images[n].image.lines[3].text
                    = "Yield Today: "
                      \o format_opendtu_value(TotalField(opendtu.body, "YieldDay"))

C16_Witness ==
    /\ pc = "sleep" /\ nTelemetry = 2
    /\ \E n \in Frames : images[n].image.lines[2].text # power_string

\* C17: when the capability check has failed the process is terminated, no
\* snapshot or telemetry request has been made, and test.jpg and SAVE_DIR are
\* as the process found them.
C17_InvalidTouchesNothing ==
    err \in {NotEnabled, BadResolution} =>
        /\ pc = "crashed" /\ exit_status # 0
        /\ nSent = 0 /\ nRecv = 0 /\ nTelemetry = 0 /\ nSaved = 0
        /\ test_jpg = test_jpg_before /\ images = images_before /\ Written = {}

C17_Witness == err = NotEnabled /\ pc = "crashed" /\ test_jpg = "user" /\ images # <<>>

\* The date and time in a frame file's name, written as embed_text draws them.
DrawnFor(n) ==
    LET s == SubSeq(n, Len(SAVE_DIR) + 8, Len(SAVE_DIR) + 22)
    IN Join(SubSeq(s, 1, 4)) \o "-" \o Join(SubSeq(s, 5, 6)) \o "-" \o Join(SubSeq(s, 7, 8))
       \o " " \o Join(SubSeq(s, 10, 11)) \o ":" \o Join(SubSeq(s, 12, 13)) \o ":"
       \o Join(SubSeq(s, 14, 15)) \o " " \o LocalZone

\* C18: the timestamp drawn on a saved frame is the date and time of its file's
\* name, and the file just saved holds the frame of the last fetch, named and
\* stamped with the one clock reading of that fetch.
C18_Pairing ==
    /\ \A n \in Written : images[n].image.lines[1].text = DrawnFor(n)
    /\ pc \in {"save", "sleep"} => (image.id = nRecv /\ nClock = nRecv)
    /\ pc = "sleep" =>
          /\ save_filename(now) \in Frames
          /\ images[save_filename(now)].image = image
          /\ image.lines[1].text = display_timestamp(now)

C18_Witness ==
    /\ pc = "sleep" /\ save_filename(now) \in Frames
    /\ datetime_now(clock).second # now.second

\* C19: when Estimating has completed, test.jpg and SAVE_DIR hold what they
\* held before it.
C19_EstimatingLeavesFiles ==
    (phase = "Running" /\ nLoopFetch = 0)
        => (test_jpg = test_jpg_before /\ images = images_before)

\* C12: a second save with the same timestamp and frame leaves SAVE_DIR with
\* the same names and the same contents as the first; the first adds or
\* replaces the one file named for the timestamp and touches no other.
C12_SaveIdempotent ==
    LET filename == save_filename(now)
        content  == [kind |-> "frame", image |-> image]
    IN /\ (nSaved = 1 /\ pc = "sleep") =>
             /\ DOMAIN images = DOMAIN images_before \cup {filename}
             /\ images[filename] = content
             /\ \A n \in DOMAIN images_before \ {filename} : images[n] = images_before[n]
       /\ (nSaved = 2 /\ pc = "sleep") =>
             /\ images = images_before
             /\ DOMAIN images = DOMAIN images_before
             /\ images[filename] = content

C12_Witness ==
    /\ nSaved = 2 /\ pc = "sleep" /\ Cardinality(DOMAIN images) = 2
    /\ images[save_filename(now)].kind = "frame"

\* out is v to d decimal places, a space, and u.
Rendered(out, v, d, u) ==
    \E w \in {v.n \div Pow10(v.s), v.n \div Pow10(v.s) + 1}, f \in 0 .. (Pow10(d) - 1) :
        /\ out = NatStr(w) \o (IF d = 0 THEN "" ELSE "." \o FracStr(f, d)) \o " " \o u
        /\ LET diff == (w * Pow10(d) + f) * Pow10(v.s) - v.n * Pow10(d)
           IN 2 * diff <= Pow10(v.s) /\ 2 * diff >= 0 - Pow10(v.s)

\* C13, as claimed: the result is "N/A" for an absent or empty reading, and for
\* a present reading no local default takes the place of value, unit or
\* precision.
C13_NoLocalDefaults ==
    fmt_out # "" =>
        /\ (~fmt_in.key \/ fmt_in.has = {}) => fmt_out = "N/A"
        /\ (fmt_in.key /\ fmt_in.has # {}) => fmt_defaults = {}

\* C13, amended: the result is "N/A" for an absent or empty reading; for a
\* present reading it is the value to the reading's precision, a space and the
\* unit, each taken from the payload when the reading has it and otherwise the
\* local default: value 0, unit "", precision 0.
C13_FormatReading ==
    fmt_out # "" =>
        /\ (~fmt_in.key \/ fmt_in.has = {}) => fmt_out = "N/A"
        /\ (fmt_in.key /\ fmt_in.has # {}) =>
              /\ fmt_defaults = {"v", "u", "d"} \ fmt_in.has
              /\ Rendered(fmt_out,
                          IF "v" \in fmt_in.has THEN fmt_in.v ELSE [n |-> 0, s |-> 0],
                          IF "d" \in fmt_in.has THEN fmt_in.d ELSE 0,
                          IF "u" \in fmt_in.has THEN fmt_in.u ELSE "")
        /\ fmt_in = [key |-> TRUE, has |-> {"v", "u", "d"}, v |-> [n |-> 1234, s |-> 1],
                     u |-> "W", d |-> 2]
              => fmt_out = "123.40 W"

C13_Witness == fmt_out = "1500 " /\ fmt_in.has = {"v"} /\ fmt_defaults = {"u", "d"}

\* C14: in the run in which the capability is valid and every request and every
\* write succeeds, the process never terminates, each fetch of the loop is
\* followed by the save of its frame, and the number of saved frames reaches
\* every number up to the bound on the loop.
C14_LoopRunsOn ==
    /\ [](pc # "crashed" /\ exit_status = 0 /\ nSaved <= nLoopFetch
          /\ nLoopFetch <= nSaved + 1)
    /\ \A k \in 1 .. MaxIter : (nLoopFetch = k) ~> (nSaved = k /\ Cardinality(Frames) = k)
    /\ <>(nSaved = MaxIter)

C14_Witness == nSaved = MaxIter /\ pc = "img_send" /\ nSleep = MaxIter

====
